---- MODULE Spec2Model ----
(***************************************************************************)
(* Liquidation cascade detector and order execution gate of BybitService   *)
(* (src/src/modules/bybit/bybit.service.ts) with the tracker's open set    *)
(* (src/src/modules/bybit/trade-tracker.service.ts).                       *)
(*                                                                         *)
(* Node.js runs every callback to its next await without interleaving, so  *)
(* each action below is one such synchronous segment: the arrival of a     *)
(* feed message, the return of an awaited call, or the firing of a timer.  *)
(* Awaited calls take an arbitrary time: the clock may advance between     *)
(* the segment that starts a call and the segment that resumes after it.   *)
(* Times are milliseconds (Date.now()); the clock advances in TimeStep     *)
(* increments, and two segments may run at the same clock value.           *)
(***************************************************************************)
EXTENDS Integers, Sequences, FiniteSets, Bags, TLC

\* ---------------------------------------------------------------- bounds
\* Date.now() when the service starts, the step of the clock and the time
\* the model follows the service for; the longest message of the feed, the
\* observations the feed delivers in a run, and those it delivers to the
\* order execution gate
StartTime == 100000
TimeStep == 5000
MaxTime == 30000
MaxBatch == 2
MaxObs == 2
MaxGateObs == 1
MaxTracked == 2

\* ------------------------------------------------------ program constants
MIN_POSITION == 1000
BIG_POSITION == 100000
QUIET_MS == 10000
CACHE_TTL == 30000
USD_AMOUNT == 1000
\* takeProfitPercent = 1 and stopLossPercent = 0.35, in hundredths of a percent
takeProfitPercent == 100
stopLossPercent == 35
\* checkInterval of the tracker
CHECK_INTERVAL == 15000
RECONNECT_MS == 5000

Symbols == {"SOLUSDT"}
Sides == {"Buy", "Sell"}
Keys == Symbols \X Sides

\* price and volume of the observations the feed delivers (p, v of
\* LiquidationEvent.data); notional p*v is 500, 1000 or 200000
ObsPrices == {100}
ObsVolumes == {5, 10, 2000}
Observations == [s : Symbols, S : Sides, p : ObsPrices, v : ObsVolumes]

\* Prices are in thousandths of a dollar and quantities in thousandths of a
\* unit; products and quotients are computed exactly, and the inputs stay
\* clear of the points where binary floating point would round otherwise.
\* lastPrice of the ticker: 100.000
Prices == {100000}
\* priceFilter.tickSize of the instrument: 0.01, 1 and 10
Ticks == {10, 1000, 10000}

\* outcomes of telegramService.sendMessage: the message is sent, or the
\* send fails
SinkReplies == BOOLEAN

\* replies of the exchange client to the calls placeOrder awaits
InstrumentReplies ==
    [kind : {"throw", "empty"}, tickSize : {0}]
        \cup [kind : {"ok"}, tickSize : Ticks]
PositionReplies ==
    [kind : {"throw"}, retCode : {0}, list : {<< >>}]
        \cup [kind : {"ok"}, retCode : {0, 10001}, list : {<< >>}]
        \cup [kind : {"ok"}, retCode : {0},
              list : {<<[side |-> sd, size |-> sz]>> : sd \in Sides, sz \in {0, 10000}}]
TickerReplies ==
    [kind : {"throw", "empty"}, lastPrice : {0}]
        \cup [kind : {"ok"}, lastPrice : Prices]
SubmitReplies ==
    [kind : {"throw"}, retCode : {0}] \cup [kind : {"ok"}, retCode : {0, 110007}]

RECURSIVE SeqsUpTo(_, _)
SeqsUpTo(S, n) ==
    IF n = 0 THEN {<<>>}
    ELSE LET shorter == SeqsUpTo(S, n - 1)
         IN  shorter \cup {Append(q, x) : q \in {r \in shorter : Len(r) = n - 1}, x \in S}

Batches == SeqsUpTo(Observations, MaxBatch)

Range(q) == {q[i] : i \in DOMAIN q}

VARIABLES
    now,               \* Date.now()
    alive,             \* FALSE once the process died of an unhandled error
    liquidationCache,  \* symbol -> [lastBuyLiquidation, lastSellLiquidation]
    timers,            \* timerKey -> handle of the last timer set for the key
    pool,              \* the quiescence timers that are armed and not fired or cleared
    evictions,         \* the pending cache-cleaning timeouts of updateLiquidationCache
    handlers,          \* handleLiquidation calls suspended in the large-liquidation message
    calls,             \* timer callbacks (and their placeOrder call) suspended in an await
    activePositions,   \* TradeTrackerService.activePositions
    lastReply,         \* history: the last reply of the exchange to submitOrder
    nObs,              \* number of observations the feed has delivered
    ignored,           \* history: a message of observations below 1000 USD only has
                       \* been handled while a timer of one of their keys was live
    lastQual,          \* history: key -> time of the last qualifying observation, -1 if none
    bursts,            \* history: key -> number of bursts of qualifying observations
    burstReq,          \* history: key -> order requests issued since the current burst began
    nextId,            \* history: the number of TrackedPosition objects created, plus one
    nextPoll,          \* the time the interval timer of the tracker fires next
    polls,             \* checkPositions runs suspended in an await
    dailyStats,        \* TradingAnalyticsService.dailyStats
    closedIds,         \* history: for each trade of dailyStats.positions, the
                       \* TrackedPosition object it was built from
    quote,             \* a quote and the protection levels computed from it
    ws                 \* the streaming connection: the state of the current socket,
                       \* the time its reconnect timeout is due (-1 if none) and,
                       \* as history, the sockets made, the disconnects and the
                       \* subscriptions sent

detector == <<liquidationCache, timers, pool, evictions>>
\* the tracker's polling, the analytics and the protection levels
pollVars == <<nextPoll, polls, dailyStats, closedIds, quote, ws>>
trackerVars == <<nextId, nextPoll, polls, dailyStats, closedIds, quote, ws>>
vars == <<now, alive, liquidationCache, timers, pool, evictions, handlers,
          calls, activePositions, lastReply, nObs, ignored, lastQual, bursts, burstReq,
          nextId, nextPoll, polls, dailyStats, closedIds, quote, ws>>

\* Field with one field for both sides
FieldShared(side) == "lastBuyLiquidation"

\* the cache field of a side (lines 270-272, 278-280, 320-324)
Field(side) == IF side = "Buy" THEN "lastBuyLiquidation" ELSE "lastSellLiquidation"

\* this.liquidationCache[symbol]?.[field] || 0
CacheRead(cache, sym, side) ==
    IF sym \in DOMAIN cache THEN cache[sym][Field(side)] ELSE 0

\* parseFloat(price) * parseFloat(volume)
PositionSize(d) == d.p * d.v

\* Qualifies with the threshold at half its value
QualifiesFromHalf(d) == 2 * PositionSize(d) >= MIN_POSITION

\* positionSize < 1000 -> continue (lines 235-238), negated
Qualifies(d) == PositionSize(d) >= MIN_POSITION

\* positionSize > 100000 (line 250)
IsLarge(d) == PositionSize(d) > BIG_POSITION

\* The detector's data as one record, so that the synchronous run of
\* handleLiquidation over a batch is a function from record to record.
DetectorState ==
    [cache |-> liquidationCache, timers |-> timers, pool |-> pool,
     evictions |-> evictions,
     lastQual |-> lastQual, bursts |-> bursts, burstReq |-> burstReq]

\* updateLiquidationCache making a new entry of the symbol at every call
UpdateLiquidationCacheAnew(D, sym, side, t) ==
    LET key == <<sym, side>>
        c1 == [x \in DOMAIN D.cache \cup {sym} |->
                 IF x = sym
                 THEN [lastBuyLiquidation |-> 0, lastSellLiquidation |-> 0]
                 ELSE D.cache[x]]
        c2 == [c1 EXCEPT ![sym][Field(side)] = t]
        fresh == D.lastQual[key] = -1 \/ t - D.lastQual[key] >= QUIET_MS
    IN  [D EXCEPT !.cache = c2,
                  !.evictions = @ (+) SetToBag({[sym |-> sym, at |-> t]}),
                  !.lastQual[key] = t,
                  !.bursts[key] = IF fresh THEN @ + 1 ELSE @,
                  !.burstReq[key] = IF fresh THEN 0 ELSE @]

\* updateLiquidationCache (lines 311-335) at time t; the history fields
\* note the arrival of a qualifying observation on the key and open a new
\* burst when the previous one on the key is QUIET_MS or more in the past
UpdateLiquidationCache(D, sym, side, t) ==
    LET key == <<sym, side>>
        c1 == IF sym \in DOMAIN D.cache THEN D.cache
              ELSE [x \in DOMAIN D.cache \cup {sym} |->
                      IF x = sym
                      THEN [lastBuyLiquidation |-> 0, lastSellLiquidation |-> 0]
                      ELSE D.cache[x]]
        c2 == [c1 EXCEPT ![sym][Field(side)] = t]
        fresh == D.lastQual[key] = -1 \/ t - D.lastQual[key] >= QUIET_MS
    IN  [D EXCEPT !.cache = c2,
                  !.evictions = @ (+) SetToBag({[sym |-> sym, at |-> t]}),
                  !.lastQual[key] = t,
                  !.bursts[key] = IF fresh THEN @ + 1 ELSE @,
                  !.burstReq[key] = IF fresh THEN 0 ELSE @]

\* ClearExisting without the clearTimeout
ClearNothing(P, T, key) == P

\* clearTimeout(existingTimer) when this.timers[timerKey] is set (lines 263-266)
ClearExisting(P, T, key) ==
    IF key \in DOMAIN T THEN P \ {T[key]} ELSE P

\* lines 262-307: clear the key's timer, capture the cache value, set the
\* new 10 s timer and store its handle. A timer is identified by its key,
\* the value it captured and the time it is due: a timer set later for the
\* same key is due later, or replaces this one in the same millisecond.
ArmTimer(D, sym, side, t) ==
    LET key == <<sym, side>>
        lastLiquidationTime == CacheRead(D.cache, sym, side)
        tm == [sym |-> sym, side |-> side,
               baseline |-> lastLiquidationTime, deadline |-> t + QUIET_MS]
    IN  [D EXCEPT !.pool = ClearExisting(D.pool, D.timers, key) \cup {tm},
                  !.timers = [k \in DOMAIN D.timers \cup {key} |->
                                IF k = key THEN tm ELSE D.timers[k]]]

\* The for loop of handleLiquidation (lines 231-308) over the observations
\* items at time t, up to its end or to the first await (the message about
\* a large liquidation, lines 254-259). susp holds the observation whose
\* message is awaited and the observations still to come.
RECURSIVE RunLoop(_, _, _)
RunLoop(D, items, t) ==
    IF items = <<>> THEN [D |-> D, susp |-> <<>>]
    ELSE LET d == Head(items)
             rest == Tail(items)
         IN  IF ~Qualifies(d) THEN RunLoop(D, rest, t)
             ELSE LET D1 == UpdateLiquidationCache(D, d.s, d.S, t)
                  IN  IF IsLarge(d)
                      THEN [D |-> D1, susp |-> <<[cur |-> d, rest |-> rest]>>]
                      ELSE RunLoop(ArmTimer(D1, d.s, d.S, t), rest, t)

\* the variables after a handler segment that ended in R
Install(R) ==
    /\ liquidationCache' = R.D.cache
    /\ timers' = R.D.timers
    /\ pool' = R.D.pool
    /\ evictions' = R.D.evictions
    /\ lastQual' = R.D.lastQual
    /\ bursts' = R.D.bursts
    /\ burstReq' = R.D.burstReq

\* the number of observations of batch whose notional is 1000 USD or more
QualCount(batch) ==
    Cardinality({i \in DOMAIN batch : batch[i].p * batch[i].v >= MIN_POSITION})

\* batch has observations, all below 1000 USD, and one of them is on a key
\* whose timer is live
IgnoredWhileLive(batch) ==
    /\ batch # << >>
    /\ QualCount(batch) = 0
    /\ \E i \in DOMAIN batch, t \in pool : t.sym = batch[i].s /\ t.side = batch[i].S

\* a promise rejected with nobody to catch it: the runtime either reports
\* it and goes on or ends the process
Unhandled == alive' \in {TRUE, FALSE}

\* initDailyStats starting the count of the orders at 1
InitDailyStatsFromOne ==
    [totalOrders |-> 1, profitable |-> 0, loss |-> 0, totalProfit |-> 0,
     positions |-> << >>]

\* initDailyStats (bybit.module.ts lines 38-47); the date is left out
InitDailyStats ==
    [totalOrders |-> 0, profitable |-> 0, loss |-> 0, totalProfit |-> 0,
     positions |-> << >>]

\* no quote has been taken
NoQuote == [pc |-> "none"]

\* the services after construction and onModuleInit, but for quote
InitService ==
    /\ now = StartTime
    /\ alive = TRUE
    /\ liquidationCache = << >>
    /\ timers = << >>
    /\ pool = {}
    /\ evictions = EmptyBag
    /\ handlers = EmptyBag
    /\ calls = {}
    /\ activePositions = << >>
    /\ lastReply = [kind |-> "none", retCode |-> 0]
    /\ nObs = 0
    /\ lastQual = [k \in Keys |-> -1]
    /\ bursts = [k \in Keys |-> 0]
    /\ burstReq = [k \in Keys |-> 0]
    /\ ignored = FALSE
    /\ nextId = 1
    /\ nextPoll = StartTime + CHECK_INTERVAL
    /\ polls = EmptyBag
    /\ dailyStats = InitDailyStats
    /\ closedIds = << >>
    /\ ws = [state |-> "connecting", retryAt |-> -1, sockets |-> 1, closes |-> 0,
             subscribed |-> 0]

Init == InitService /\ quote = NoQuote

\* ws.on('message') -> handleLiquidation(event) (lines 387-390, 228-309);
\* a message without data returns at once (line 229) and is the empty batch
FeedMessage(batch) ==
    /\ alive
    /\ nObs + Len(batch) <= MaxObs
    /\ nObs' = nObs + Len(batch)
    /\ ignored' = (ignored \/ IgnoredWhileLive(batch))
    /\ LET R == RunLoop(DetectorState, batch, now)
       IN  /\ Install(R)
           /\ handlers' = handlers (+) SetToBag(Range(R.susp))
    /\ UNCHANGED <<now, alive, calls, activePositions, lastReply>>
    /\ UNCHANGED trackerVars

\* the awaited large-liquidation message returns: the segment goes on at
\* line 262 for the observation it was sent for, then through the rest of
\* the batch; when the message fails, handleLiquidation rejects there and
\* nothing catches it (lines 387-390)
NotifyLargeReturn(h, ok) ==
    /\ alive
    /\ IF ok
       THEN /\ LET R == RunLoop(ArmTimer(DetectorState, h.cur.s, h.cur.S, now), h.rest, now)
               IN  /\ Install(R)
                   /\ handlers' = (handlers (-) SetToBag({h})) (+) SetToBag(Range(R.susp))
            /\ UNCHANGED alive
       ELSE /\ handlers' = handlers (-) SetToBag({h})
            /\ Unhandled
            /\ UNCHANGED <<liquidationCache, timers, pool, evictions,
                           lastQual, bursts, burstReq>>
    /\ UNCHANGED <<now, nObs, ignored, calls, activePositions, lastReply>>
    /\ UNCHANGED trackerVars

\* a quiescence timer or a cache-cleaning timeout is due
Due == (\E t \in pool : t.deadline <= now)
       \/ (\E e \in BagToSet(evictions) : e.at + CACHE_TTL <= now)

\* time passes; due timeouts run before the clock moves on
Tick ==
    /\ alive
    /\ ~Due
    /\ now + TimeStep <= StartTime + MaxTime
    /\ now' = now + TimeStep
    /\ UNCHANGED <<alive, liquidationCache, timers, pool, evictions, handlers,
                   calls, activePositions, lastReply, nObs, ignored, lastQual, bursts, burstReq>>
    /\ UNCHANGED trackerVars

\* the timeout set by updateLiquidationCache (lines 327-334); reading a
\* field of a deleted entry is a TypeError nothing catches
CacheCleanup(e) ==
    /\ alive
    /\ e.at + CACHE_TTL <= now
    /\ evictions' = evictions (-) SetToBag({e})
    /\ IF e.sym \notin DOMAIN liquidationCache
       THEN /\ alive' = FALSE
            /\ UNCHANGED liquidationCache
       ELSE /\ alive' = alive
            /\ liquidationCache' =
                 IF /\ e.at - liquidationCache[e.sym].lastBuyLiquidation > CACHE_TTL
                    /\ e.at - liquidationCache[e.sym].lastSellLiquidation > CACHE_TTL
                 THEN [x \in DOMAIN liquidationCache \ {e.sym} |-> liquidationCache[x]]
                 ELSE liquidationCache
    /\ UNCHANGED <<now, timers, pool, handlers, calls, activePositions, lastReply,
                   nObs, ignored, lastQual, bursts, burstReq>>
    /\ UNCHANGED trackerVars

\* ------------------------------------------------------------ placeOrder
\* const tradeSide = side === 'Buy' ? 'Sell' : 'Buy' (line 284)
TradeSide(side) == IF side = "Buy" THEN "Sell" ELSE "Buy"

\* Exhausted deciding without looking at the cache
ExhaustedAlways(currentLiquidationTime, lastLiquidationTime) == TRUE

\* currentLiquidationTime <= lastLiquidationTime (line 282)
Exhausted(currentLiquidationTime, lastLiquidationTime) ==
    currentLiquidationTime <= lastLiquidationTime

\* getCurrentPositions taking a failed query for an open long
GetCurrentPositionsFailClosed(r) ==
    IF r.kind = "throw" \/ r.retCode # 0 THEN [side |-> "Buy", size |-> 1]
    ELSE IF Len(r.list) = 0 \/ r.list[1].size = 0 THEN [side |-> "None", size |-> 0]
    ELSE [side |-> r.list[1].side, size |-> r.list[1].size]

\* getCurrentPositions (lines 337-366) on the reply of getPositionInfo
GetCurrentPositions(r) ==
    IF r.kind = "throw" THEN [side |-> "None", size |-> 0]
    ELSE IF r.retCode # 0 \/ Len(r.list) = 0 THEN [side |-> "None", size |-> 0]
    ELSE IF r.list[1].size = 0 THEN [side |-> "None", size |-> 0]
    ELSE [side |-> IF r.list[1].side = "Buy" THEN "Buy" ELSE "Sell",
          size |-> r.list[1].size]

\* Conflicting without the check
ConflictingNever(currentPosition, side) == FALSE

\* currentPosition.side === side && currentPosition.size > 0 (line 71)
Conflicting(currentPosition, side) ==
    currentPosition.side = side /\ currentPosition.size > 0

\* Math.round(num / den) for positive num, den: the nearest integer, halves up
RoundDiv(num, den) == (2 * num + den) \div (2 * den)

\* adjustPrice (lines 103-106) of the price num/den
AdjustPrice(num, den, tickSize) == RoundDiv(num, den * tickSize) * tickSize

\* takeProfitPrice after adjustPrice (lines 92-95, 108)
TakeProfitPrice(side, currentPrice, tickSize) ==
    IF side = "Buy"
    THEN AdjustPrice(currentPrice * (10000 + takeProfitPercent), 10000, tickSize)
    ELSE AdjustPrice(currentPrice * (10000 - takeProfitPercent), 10000, tickSize)

\* stopLossPrice after adjustPrice (lines 97-100, 109)
StopLossPrice(side, currentPrice, tickSize) ==
    IF side = "Buy"
    THEN AdjustPrice(currentPrice * (10000 - stopLossPercent), 10000, tickSize)
    ELSE AdjustPrice(currentPrice * (10000 + stopLossPercent), 10000, tickSize)

\* the two checks of lines 112-121 pass
TpValid(side, takeProfitPrice, currentPrice) ==
    /\ ~(side = "Sell" /\ takeProfitPrice >= currentPrice)
    /\ ~(side = "Buy" /\ takeProfitPrice <= currentPrice)

\* takeProfitPrice.toFixed(2), stopLossPrice.toFixed(2) (lines 132-133):
\* the price the string of two decimals denotes
ToFixed2(x) == RoundDiv(x, 10) * 10

\* getMinStep (lines 204-214) and getMinQty (lines 216-226), in thousandths
GetMinStep(symbol) ==
    CASE symbol = "BTCUSDT" -> 1
      [] symbol = "ETHUSDT" -> 10
      [] symbol = "SOLUSDT" -> 100
      [] symbol = "BNBUSDT" -> 10
      [] symbol = "1000PEPEUSDT" -> 100000
      [] OTHER -> 1

GetMinQty(symbol) ==
    CASE symbol = "BTCUSDT" -> 1
      [] symbol = "ETHUSDT" -> 10
      [] symbol = "SOLUSDT" -> 100
      [] symbol = "BNBUSDT" -> 10
      [] symbol = "1000PEPEUSDT" -> 100000
      [] OTHER -> 1

\* the number of decimals chosen from the price (lines 175-183)
Precision(price) ==
    IF price >= 10000 * 1000 THEN 3 ELSE IF price >= 1000 * 1000 THEN 2 ELSE 1

\* one unit of the last of precision decimals, in thousandths
Ulp(precision) == CASE precision = 3 -> 1 [] precision = 2 -> 10 [] OTHER -> 100

Max(a, b) == IF a >= b THEN a ELSE b

\* calculateValidQty without the rounding to the step of the symbol
CalculateValidQtyNoStep(symbol, price, usdAmount) ==
    LET precision == Precision(price)
        minQty == GetMinQty(symbol)
        r0 == RoundDiv(usdAmount * 1000 * 1000, price * Ulp(precision)) * Ulp(precision)
        r2 == Max(minQty, r0)
    IN  RoundDiv(r2, Ulp(precision)) * Ulp(precision)

\* calculateValidQty (lines 169-202) of qty = usdAmount / price; the result
\* is the number the returned string denotes (removing the zeros that end
\* the decimals does not change it)
CalculateValidQty(symbol, price, usdAmount) ==
    LET precision == Precision(price)
        minStep == GetMinStep(symbol)
        minQty == GetMinQty(symbol)
        \* qty.toFixed(precision), qty = usdAmount / price in thousandths
        r0 == RoundDiv(usdAmount * 1000 * 1000, price * Ulp(precision)) * Ulp(precision)
        r1 == IF minStep > 0 THEN RoundDiv(r0, minStep) * minStep ELSE r0
        r2 == Max(minQty, r1)
    IN  RoundDiv(r2, Ulp(precision)) * Ulp(precision)

\* the callback of a fired timer t, about to run. posReply (the reply of
\* getPositionInfo), notes (the messages sent about how the order request
\* ended) and submits (the orders sent) are history.
NewCall(t) ==
    [sym |-> t.sym, side |-> t.side, baseline |-> t.baseline, deadline |-> t.deadline,
     pc |-> "start", tradeSide |-> "None", tickSize |-> 0,
     currentPrice |-> 0, qty |-> 0,
     takeProfit |-> 0, stopLoss |-> 0,
     posReply |-> [kind |-> "none", retCode |-> 0, list |-> << >>],
     notes |-> 0, submits |-> 0]

Goto(c, c2) == calls' = (calls \ {c}) \cup {c2}

\* ToErrorMsg sending the order again when submitOrder failed
RetryOnError(c) ==
    Goto(c, [c EXCEPT !.pc = IF c.pc = "submit" THEN "ticker" ELSE "errorMsg",
                      !.notes = @ + 1])

\* the catch block of placeOrder (lines 159-166) sends its message
ToErrorMsg(c) == Goto(c, [c EXCEPT !.pc = "errorMsg", !.notes = @ + 1])

\* the catch block of the timer callback (lines 292-298) sends its message
ToFailMsg(c) == Goto(c, [c EXCEPT !.pc = "failMsg", !.notes = @ + 1])

detectorVars == <<liquidationCache, timers, pool, evictions, handlers,
                  nObs, ignored, lastQual, bursts>>

\* the timer of lines 275-307 fires: the callback reads the cache and takes
\* one of its two branches, up to the first await of the branch
TimerFire(t) ==
    /\ alive
    /\ t \in pool
    /\ t.deadline <= now
    /\ pool' = pool \ {t}
    /\ LET currentLiquidationTime == CacheRead(liquidationCache, t.sym, t.side)
       IN  IF Exhausted(currentLiquidationTime, t.baseline)
           THEN /\ calls' = calls \cup
                      {[NewCall(t) EXCEPT !.pc = "announce",
                                          !.tradeSide = TradeSide(t.side)]}
                /\ burstReq' = [burstReq EXCEPT ![<<t.sym, t.side>>] = @ + 1]
           ELSE /\ calls' = calls \cup {[NewCall(t) EXCEPT !.pc = "cascadeMsg"]}
                /\ UNCHANGED burstReq
    /\ UNCHANGED <<now, alive, liquidationCache, timers, evictions, handlers,
                   activePositions, lastReply, nObs, ignored, lastQual, bursts>>
    /\ UNCHANGED trackerVars

\* the message "placing the order" (lines 285-290) returns; placeOrder is
\* called and runs to its first await, getInstrumentsInfo (line 57)
AnnounceReturn(c, ok) ==
    /\ alive
    /\ c \in calls /\ c.pc = "announce"
    /\ IF ok THEN Goto(c, [c EXCEPT !.pc = "instruments"]) ELSE ToFailMsg(c)
    /\ UNCHANGED <<now, alive, detectorVars, burstReq, activePositions, lastReply>>
    /\ UNCHANGED trackerVars

\* InstrumentsReturn going on with a reply that holds no instrument
InstrumentsReturnAny(c, r) ==
    /\ alive
    /\ c \in calls /\ c.pc = "instruments"
    /\ IF r.kind # "throw"
       THEN Goto(c, [c EXCEPT !.pc = "position", !.tickSize = r.tickSize])
       ELSE ToErrorMsg(c)
    /\ UNCHANGED <<now, alive, detectorVars, burstReq, activePositions, lastReply>>
    /\ UNCHANGED trackerVars

\* getInstrumentsInfo returns (lines 57-67); next await: getCurrentPositions
InstrumentsReturn(c, r) ==
    /\ alive
    /\ c \in calls /\ c.pc = "instruments"
    /\ IF r.kind = "ok"
       THEN Goto(c, [c EXCEPT !.pc = "position", !.tickSize = r.tickSize])
       ELSE ToErrorMsg(c)
    /\ UNCHANGED <<now, alive, detectorVars, burstReq, activePositions, lastReply>>
    /\ UNCHANGED trackerVars

\* getCurrentPositions returns (lines 70-81): skip, or ask for the ticker
PositionReturn(c, r) ==
    /\ alive
    /\ c \in calls /\ c.pc = "position"
    /\ IF Conflicting(GetCurrentPositions(r), c.tradeSide)
       THEN Goto(c, [c EXCEPT !.pc = "skipMsg", !.posReply = r, !.notes = @ + 1])
       ELSE Goto(c, [c EXCEPT !.pc = "ticker", !.posReply = r])
    /\ UNCHANGED <<now, alive, detectorVars, burstReq, activePositions, lastReply>>
    /\ UNCHANGED trackerVars

\* the skip message returns (lines 73-74): return { skipped: true }
SkipMsgReturn(c, ok) ==
    /\ alive
    /\ c \in calls /\ c.pc = "skipMsg"
    /\ IF ok
       THEN /\ calls' = calls \ {c}
       ELSE /\ ToErrorMsg(c)
    /\ UNCHANGED <<now, alive, detectorVars, burstReq, activePositions, lastReply>>
    /\ UNCHANGED trackerVars

\* getTickers returns (lines 78-137): quantity, TP/SL, validation, and the
\* order is sent
TickerReturn(c, r) ==
    /\ alive
    /\ c \in calls /\ c.pc = "ticker"
    /\ IF r.kind = "ok"
       THEN LET currentPrice == r.lastPrice
                roundedQty == CalculateValidQty(c.sym, currentPrice, USD_AMOUNT)
                takeProfitPrice == TakeProfitPrice(c.tradeSide, currentPrice, c.tickSize)
                stopLossPrice == StopLossPrice(c.tradeSide, currentPrice, c.tickSize)
            IN  IF TpValid(c.tradeSide, takeProfitPrice, currentPrice)
                THEN Goto(c, [c EXCEPT !.pc = "submit",
                                       !.currentPrice = currentPrice,
                                       !.qty = roundedQty,
                                       !.takeProfit = takeProfitPrice,
                                       !.stopLoss = stopLossPrice,
                                       !.submits = @ + 1])
                ELSE ToErrorMsg(c)
       ELSE ToErrorMsg(c)
    /\ UNCHANGED <<now, alive, detectorVars, burstReq, activePositions, lastReply>>
    /\ UNCHANGED trackerVars

\* submitOrder returns (lines 124-158)
SubmitReturn(c, r) ==
    /\ alive
    /\ c \in calls /\ c.pc = "submit"
    /\ CASE r.kind = "throw" ->
              /\ ToErrorMsg(c)
         [] r.kind = "ok" /\ r.retCode = 0 ->
              /\ Goto(c, [c EXCEPT !.pc = "okMsg", !.notes = @ + 1])
         [] OTHER ->
              /\ calls' = calls \ {c}
    /\ lastReply' = r
    /\ UNCHANGED <<now, alive, detectorVars, burstReq, activePositions>>
    /\ UNCHANGED trackerVars

\* the TrackedPosition of lines 145-153
Tracked(c, t) ==
    [symbol |-> c.sym, side |-> c.tradeSide, entryPrice |-> c.currentPrice,
     takeProfit |-> c.takeProfit, stopLoss |-> c.stopLoss, size |-> c.qty,
     openedAt |-> t]

\* trackNewPosition (trade-tracker.service.ts lines 40-43). The position is
\* an object: oid tells it from another with the same fields.
TrackNewPosition(position) ==
    /\ activePositions' = Append(activePositions, [oid |-> nextId] @@ position)
    /\ nextId' = nextId + 1

\* the message "order executed" returns (lines 142-158)
OkMsgReturn(c, ok) ==
    /\ alive
    /\ c \in calls /\ c.pc = "okMsg"
    /\ IF ok
       THEN /\ TrackNewPosition(Tracked(c, now))
            /\ calls' = calls \ {c}
       ELSE /\ ToErrorMsg(c)
            /\ UNCHANGED <<activePositions, nextId>>
    /\ UNCHANGED <<now, alive, detectorVars, burstReq, lastReply>>
    /\ UNCHANGED pollVars

\* the message of placeOrder's catch returns (lines 161-165); the error, or
\* the failure of this message, is thrown on to the timer callback's catch
ErrorMsgReturn(c, ok) ==
    /\ alive
    /\ c \in calls /\ c.pc = "errorMsg"
    /\ ToFailMsg(c)
    /\ UNCHANGED <<now, alive, detectorVars, burstReq, activePositions, lastReply>>
    /\ UNCHANGED trackerVars

\* the message of the timer callback's catch returns (lines 293-297)
FailMsgReturn(c, ok) ==
    /\ alive
    /\ c \in calls /\ c.pc = "failMsg"
    /\ calls' = calls \ {c}
    /\ IF ok THEN UNCHANGED alive ELSE Unhandled
    /\ UNCHANGED <<now, detectorVars, burstReq, activePositions, lastReply>>
    /\ UNCHANGED trackerVars

\* the message "cascade goes on" returns (lines 300-305)
CascadeMsgReturn(c, ok) ==
    /\ alive
    /\ c \in calls /\ c.pc = "cascadeMsg"
    /\ calls' = calls \ {c}
    /\ IF ok THEN UNCHANGED alive ELSE Unhandled
    /\ UNCHANGED <<now, detectorVars, burstReq, activePositions, lastReply>>
    /\ UNCHANGED trackerVars

\* the detector: feed messages, timeouts and the clock
NextDetector ==
    \/ \E batch \in Batches : FeedMessage(batch)
    \/ \E h \in BagToSet(handlers), ok \in SinkReplies : NotifyLargeReturn(h, ok)
    \/ \E t \in pool : TimerFire(t)
    \/ \E e \in BagToSet(evictions) : CacheCleanup(e)
    \/ Tick

\* the awaited calls of a timer callback on its order branch, and of its
\* placeOrder call, return
NextOrderCalls ==
    \/ \E c \in calls, ok \in SinkReplies : AnnounceReturn(c, ok)
    \/ \E c \in calls, r \in InstrumentReplies : InstrumentsReturn(c, r)
    \/ \E c \in calls, r \in PositionReplies : PositionReturn(c, r)
    \/ \E c \in calls, ok \in SinkReplies : SkipMsgReturn(c, ok)
    \/ \E c \in calls, r \in TickerReplies : TickerReturn(c, r)
    \/ \E c \in calls, r \in SubmitReplies : SubmitReturn(c, r)
    \/ \E c \in calls, ok \in SinkReplies : OkMsgReturn(c, ok)
    \/ \E c \in calls, ok \in SinkReplies : ErrorMsgReturn(c, ok)
    \/ \E c \in calls, ok \in SinkReplies : FailMsgReturn(c, ok)

\* the awaited calls of the timer callbacks return
NextCalls ==
    \/ NextOrderCalls
    \/ \E c \in calls, ok \in SinkReplies : CascadeMsgReturn(c, ok)

Next == NextDetector \/ NextCalls

\* the whole service
Spec == Init /\ [][Next]_vars

\* The detector while the calls its timer callbacks await have not returned.
\* No action of NextCalls changes a variable the detector reads other than
\* alive, which only stops it, so every sequence of detector states of Spec
\* is one of DetectorSpec or a prefix of one.
DetectorSpec == Init /\ [][NextDetector]_vars

\* the feed delivers one observation, not a large one, per message, and
\* MaxGateObs of them in all; no handler is then suspended when a timer
\* fires, so every timer callback takes its order branch
FeedSingle(batch) ==
    /\ Len(batch) = 1
    /\ ~IsLarge(batch[1])
    /\ nObs + Len(batch) <= MaxGateObs
    /\ FeedMessage(batch)

NextGate ==
    \/ \E batch \in Batches : FeedSingle(batch)
    \/ \E t \in pool : TimerFire(t)
    \/ \E e \in BagToSet(evictions) : CacheCleanup(e)
    \/ Tick
    \/ NextOrderCalls

\* The order execution gate: every timer callback from the firing of its
\* timer to its end, under every reply of the exchange and of the sink.
GateSpec == Init /\ [][NextGate]_vars

\* the tick sizes with which the take-profit of every price passes the
\* checks of lines 112-121
ValidTicks ==
    {t \in Ticks : \A p \in Prices, sd \in Sides : TpValid(sd, TakeProfitPrice(sd, p, t), p)}

\* the feed delivers sell-side observations, one per message
FeedSell(batch) ==
    /\ Len(batch) = 1
    /\ batch[1].S = "Sell"
    /\ FeedMessage(batch)

\* the exchange and the sink answer every call with success, and no
\* position is open on the side of an order
NextSuccess ==
    \/ \E batch \in Batches : FeedSell(batch)
    \/ \E h \in BagToSet(handlers) : NotifyLargeReturn(h, TRUE)
    \/ \E t \in pool : TimerFire(t)
    \/ \E e \in BagToSet(evictions) : CacheCleanup(e)
    \/ Tick
    \/ \E c \in calls : AnnounceReturn(c, TRUE)
    \/ \E c \in calls, r \in InstrumentReplies :
          r.kind = "ok" /\ r.tickSize \in ValidTicks /\ InstrumentsReturn(c, r)
    \/ \E c \in calls, r \in PositionReplies :
          /\ r.kind = "ok" /\ r.retCode = 0
          /\ ~Conflicting(GetCurrentPositions(r), c.tradeSide)
          /\ PositionReturn(c, r)
    \/ \E c \in calls, r \in TickerReplies : r.kind = "ok" /\ TickerReturn(c, r)
    \/ \E c \in calls, r \in SubmitReplies :
          r.kind = "ok" /\ r.retCode = 0 /\ SubmitReturn(c, r)
    \/ \E c \in calls : OkMsgReturn(c, TRUE)
    \/ \E c \in calls : CascadeMsgReturn(c, TRUE)

\* The service from a sell-side cascade to the tracked position while every
\* awaited call succeeds. The tracker's poll of the exchange does not run in
\* it, so activePositions holds every order the exchange has accepted.
SuccessSpec == Init /\ [][NextSuccess]_vars

\* --------------------------------------------------------------- tracker
\* markPrice of the tickers the tracker is answered with: 100 and 101
MarkPrices == {100000, 101000}

\* replies of getTickers to processClosedPosition
MarkReplies ==
    [kind : {"throw"}, markPrice : {0}]
        \cup [kind : {"ok"}, markPrice : MarkPrices]

\* the tick size of the instruments whose orders the tracker follows: 0.01
TrackTick == 10

\* the positions placeOrder hands to trackNewPosition at time t (lines
\* 145-153 of bybit.service.ts) for an order of 1000 USD
TrackedInputs(t) ==
    {[symbol |-> sym, side |-> sd, entryPrice |-> p,
      takeProfit |-> TakeProfitPrice(sd, p, TrackTick),
      stopLoss |-> StopLossPrice(sd, p, TrackTick),
      size |-> CalculateValidQty(sym, p, USD_AMOUNT), openedAt |-> t] :
        sym \in Symbols, sd \in Sides, p \in Prices}

\* determineClosedType with the comparisons strict
DetermineClosedTypeStrict(position, exitPrice) ==
    IF position.side = "Buy"
    THEN IF exitPrice > position.takeProfit THEN "TP"
         ELSE IF exitPrice < position.stopLoss THEN "SL" ELSE "Manual"
    ELSE IF exitPrice < position.takeProfit THEN "TP"
         ELSE IF exitPrice > position.stopLoss THEN "SL" ELSE "Manual"

\* determineClosedType (lines 98-114)
DetermineClosedType(position, exitPrice) ==
    IF position.side = "Buy"
    THEN IF exitPrice >= position.takeProfit THEN "TP"
         ELSE IF exitPrice <= position.stopLoss THEN "SL" ELSE "Manual"
    ELSE IF exitPrice <= position.takeProfit THEN "TP"
         ELSE IF exitPrice >= position.stopLoss THEN "SL" ELSE "Manual"

\* calculatePnl taking every position for a long
CalculatePnlLong(position, exitPrice) ==
    (exitPrice - position.entryPrice) * position.size

\* calculatePnl (lines 116-123), in millionths of a dollar
CalculatePnl(position, exitPrice) ==
    LET priceDifference == IF position.side = "Buy"
                           THEN exitPrice - position.entryPrice
                           ELSE position.entryPrice - exitPrice
    IN  priceDifference * position.size

\* the TradePosition of lines 82-90, built at time t
BuildTrade(position, exitPrice, t) ==
    [symbol |-> position.symbol, side |-> position.side,
     entryPrice |-> position.entryPrice, exitPrice |-> exitPrice,
     pnl |-> CalculatePnl(position, exitPrice), timestamp |-> t,
     closedType |-> DetermineClosedType(position, exitPrice)]

\* the update of the statistics counting a trade of pnl 0 as a loss
RecordZeroAsLoss(stats, trade) ==
    [totalOrders |-> stats.totalOrders + 1,
     totalProfit |-> stats.totalProfit + trade.pnl,
     profitable |-> IF trade.pnl > 0 THEN stats.profitable + 1 ELSE stats.profitable,
     loss |-> IF trade.pnl > 0 THEN stats.loss ELSE stats.loss + 1,
     positions |-> Append(stats.positions, trade)]

\* TradingAnalyticsService.processClosedPosition up to its await
\* (bybit.module.ts lines 51-60)
Record(stats, trade) ==
    [totalOrders |-> stats.totalOrders + 1,
     totalProfit |-> stats.totalProfit + trade.pnl,
     profitable |-> IF trade.pnl >= 0 THEN stats.profitable + 1 ELSE stats.profitable,
     loss |-> IF trade.pnl >= 0 THEN stats.loss ELSE stats.loss + 1,
     positions |-> Append(stats.positions, trade)]

\* replies of getPositionInfo to checkPositions; the tracker reads the size
\* of the first position only
TrackReplies ==
    {r \in PositionReplies : r.list = << >> \/ r.list[1].side = "Buy"}

\* the detector, the calls of placeOrder, the polling and the analytics
serviceMinusWs == <<alive, liquidationCache, timers, pool, evictions, handlers, calls,
                    lastReply, nObs, ignored, lastQual, bursts, burstReq, quote,
                    nextPoll, polls, dailyStats, closedIds>>

\* what the tracker and the analytics leave alone
serviceVars == <<alive, liquidationCache, timers, pool, evictions, handlers, calls,
                 lastReply, nObs, ignored, lastQual, bursts, burstReq, quote, ws>>

\* placeOrder registers the position of an accepted order (bybit.service.ts
\* line 155), MaxTracked of them in all
TrackOrder(position) ==
    /\ alive
    /\ nextId <= MaxTracked
    /\ TrackNewPosition(position)
    /\ UNCHANGED <<now, serviceVars, nextPoll, polls, dailyStats, closedIds>>

\* the interval timer of startPositionMonitoring fires (lines 45-47):
\* checkPositions copies the tracked positions (line 50) and runs to the
\* getPositionInfo of the first one; with none tracked it returns at once
PollFire ==
    /\ alive
    /\ now >= nextPoll
    /\ nextPoll' = nextPoll + CHECK_INTERVAL
    /\ polls' = IF activePositions = << >> THEN polls
                ELSE polls (+) SetToBag({[snapshot |-> activePositions, i |-> 1,
                                          pc |-> "query", retCode |-> 0]})
    /\ UNCHANGED <<now, serviceVars, activePositions, nextId, dailyStats,
                   closedIds>>

\* the runs after run has gone on to the next position of its snapshot, or
\* has ended with the last one (line 50)
Continue(run) ==
    IF run.i < Len(run.snapshot)
    THEN (polls (-) SetToBag({run}))
            (+) SetToBag({[run EXCEPT !.i = @ + 1, !.pc = "query", !.retCode = 0]})
    ELSE polls (-) SetToBag({run})

\* the filter dropping the position and those registered after it
RemoveFrom(positions, position) ==
    SelectSeq(positions, LAMBDA p : p.oid < position.oid)

\* this.activePositions.filter((p) => p !== position) (lines 61-63)
Remove(positions, position) ==
    SelectSeq(positions, LAMBDA p : p.oid # position.oid)

\* lines 57-59: the position is taken for closed
TakenForClosed(r) ==
    Len(r.list) = 0 \/ r.list[1].size = 0

\* getPositionInfo returns to checkPositions (lines 52-67): a closed
\* position goes to processClosedPosition, up to its getTickers (line 73)
QueryReturn(run, r) ==
    /\ alive
    /\ BagIn(run, polls) /\ run.pc = "query"
    /\ IF r.kind # "throw" /\ TakenForClosed(r)
       THEN polls' = (polls (-) SetToBag({run}))
                        (+) SetToBag({[run EXCEPT !.pc = "ticker",
                                                  !.retCode = r.retCode]})
       ELSE polls' = Continue(run)
    /\ UNCHANGED <<now, serviceVars, activePositions, nextId, nextPoll, dailyStats,
                   closedIds>>

\* getTickers returns to processClosedPosition (lines 73-96): the trade is
\* built and handed to the analytics, which count it and send their message
\* (bybit.module.ts lines 49-63); a failure is caught (line 93), and
\* checkPositions removes the position (lines 61-63)
MarkReturn(run, r) ==
    /\ alive
    /\ BagIn(run, polls) /\ run.pc = "ticker"
    /\ LET position == run.snapshot[run.i]
       IN  IF r.kind = "ok"
           THEN /\ dailyStats' = Record(dailyStats, BuildTrade(position, r.markPrice, now))
                /\ closedIds' = Append(closedIds, position.oid)
                /\ polls' = (polls (-) SetToBag({run}))
                                (+) SetToBag({[run EXCEPT !.pc = "notify"]})
                /\ UNCHANGED activePositions
           ELSE /\ activePositions' = Remove(activePositions, position)
                /\ polls' = Continue(run)
                /\ UNCHANGED <<dailyStats, closedIds>>
    /\ UNCHANGED <<now, serviceVars, nextId, nextPoll>>

\* the message of the analytics returns (bybit.module.ts lines 63, 78-79);
\* its failure is caught at line 93, and checkPositions removes the
\* position (lines 61-63)
NotifyReturn(run, ok) ==
    /\ alive
    /\ BagIn(run, polls) /\ run.pc = "notify"
    /\ activePositions' = Remove(activePositions, run.snapshot[run.i])
    /\ polls' = Continue(run)
    /\ UNCHANGED <<now, serviceVars, nextId, nextPoll, dailyStats, closedIds>>

\* time passes for the tracker; a due interval timer fires before the clock
\* moves on
TrackerTick == now < nextPoll /\ Tick

NextTracker ==
    \/ \E position \in TrackedInputs(now) : TrackOrder(position)
    \/ PollFire
    \/ \E run \in BagToSet(polls), r \in TrackReplies : QueryReturn(run, r)
    \/ \E run \in BagToSet(polls), r \in MarkReplies : MarkReturn(run, r)
    \/ \E run \in BagToSet(polls), ok \in SinkReplies : NotifyReturn(run, ok)
    \/ TrackerTick

\* The tracker and the analytics: positions are registered, the interval
\* timer polls the exchange about them and closed ones are counted.
TrackerSpec == Init /\ [][NextTracker]_vars

\* ------------------------------------------------------------------ quotes

\* lastPrice of the tickers a quote is taken from: 20, 25, 40 and 100
QuotePrices == {20000, 25000, 40000, 100000}

\* what placeOrder computes the levels of an order from: the side, the
\* lastPrice of the ticker (line 82) and the tickSize of the instrument
\* (line 104)
QuoteInputs ==
    [pc : {"input"}, symbol : Symbols, side : Sides, currentPrice : QuotePrices,
     tickSize : Ticks]

\* the mark prices a position is found closed at: its levels, its entry
\* price and the prices 0.01 off its levels
ExitPricesOf(position) ==
    {position.entryPrice}
        \cup {position.takeProfit + d : d \in {-10, 0, 10}}
        \cup {position.stopLoss + d : d \in {-10, 0, 10}}

\* the prices the exchange quotes, in steps of 0.01 up to 200
MarkRange == {10 * k : k \in 0..20000}

\* what taking a quote leaves alone
quoteFrame == <<now, alive, liquidationCache, timers, pool, evictions, handlers, calls,
                lastReply, nObs, ignored, lastQual, bursts, burstReq, activePositions,
                nextId, nextPoll, polls, dailyStats, closedIds, ws>>

\* placeOrder computes the quantity and the levels of the order (lines
\* 85-109) that make up the TrackedPosition of lines 145-153
ComputeLevels ==
    /\ quote.pc = "input"
    /\ quote' = [pc |-> "levels",
                 position |->
                    [symbol |-> quote.symbol, side |-> quote.side,
                     entryPrice |-> quote.currentPrice,
                     takeProfit |-> TakeProfitPrice(quote.side, quote.currentPrice,
                                                    quote.tickSize),
                     stopLoss |-> StopLossPrice(quote.side, quote.currentPrice,
                                                quote.tickSize),
                     size |-> CalculateValidQty(quote.symbol, quote.currentPrice,
                                                USD_AMOUNT),
                     openedAt |-> now]]
    /\ UNCHANGED quoteFrame

\* processClosedPosition builds the trade of the position at the mark
\* price getTickers answered (lines 78-90)
ClosePosition(markPrice) ==
    /\ quote.pc = "levels"
    /\ markPrice \in ExitPricesOf(quote.position)
    /\ quote' = [pc |-> "closed", position |-> quote.position, markPrice |-> markPrice,
                 trade |-> BuildTrade(quote.position, markPrice, now)]
    /\ UNCHANGED quoteFrame

NextQuote ==
    \/ ComputeLevels
    \/ \E markPrice \in MarkRange : ClosePosition(markPrice)

\* a quote is drawn, not yet taken
InitQuote == InitService /\ quote \in QuoteInputs

\* The computations on one order: its levels and quantity, and the trade
\* its position is closed with.
QuoteSpec == InitQuote /\ [][NextQuote]_vars

\* the symbols of the tables of getMinStep and getMinQty, and one they do
\* not hold
SizedSymbols ==
    {"BTCUSDT", "ETHUSDT", "SOLUSDT", "BNBUSDT", "1000PEPEUSDT", "XRPUSDT"}

\* lastPrice of the tickers an order is sized at, from 0.007 to 130000,
\* on both sides of the prices where the number of decimals changes
SizedPrices ==
    {7, 100000, 300000, 1000000, 3000000, 7000000, 10000000, 30000000,
     45000000, 70000000, 130000000}

\* what placeOrder sizes an order from: the symbol and the lastPrice of the
\* ticker (lines 82-86)
SizeInputs == [pc : {"sizing"}, symbol : SizedSymbols, currentPrice : SizedPrices]

\* placeOrder computes the quantity of the order (lines 85-86)
SizeOrder ==
    /\ quote.pc = "sizing"
    /\ quote' = [pc |-> "sized", symbol |-> quote.symbol,
                 currentPrice |-> quote.currentPrice,
                 qty |-> CalculateValidQty(quote.symbol, quote.currentPrice, USD_AMOUNT)]
    /\ UNCHANGED quoteFrame

\* an order is about to be sized
InitSize == InitService /\ quote \in SizeInputs

\* The sizing of one order of 1000 USD.
SizeSpec == InitSize /\ [][SizeOrder]_vars

\* ------------------------------------------------------------------ socket

\* the 'open' listener subscribing on the first connection only
SubscribeOnce(sent) == IF sent = 0 THEN 1 ELSE sent

\* the subscriptions sent once the 'open' listener has run (lines 371-385)
Subscribe(sent) == sent + 1

\* the socket connects: its 'open' listener sends the subscription for the
\* five symbols (lines 371-385)
SocketOpen ==
    /\ alive
    /\ ws.state = "connecting"
    /\ ws' = [ws EXCEPT !.state = "open", !.subscribed = Subscribe(@)]
    /\ UNCHANGED <<now, activePositions, nextId, serviceMinusWs>>

\* the socket is closed, after it had connected or while it was connecting
\* (an 'error' is only logged, lines 392-394): its 'close' listener sets
\* the timeout of the next setupWebSocket (lines 396-399)
SocketClose ==
    /\ alive
    /\ ws.state \in {"connecting", "open"}
    /\ ws' = [ws EXCEPT !.state = "closed", !.closes = @ + 1,
                        !.retryAt = now + RECONNECT_MS]
    /\ UNCHANGED <<now, activePositions, nextId, serviceMinusWs>>

\* the timeout of the 'close' listener runs setupWebSocket (line 398),
\* which makes a new socket (line 369)
Reconnect ==
    /\ alive
    /\ ws.retryAt # -1 /\ now >= ws.retryAt
    /\ ws' = [ws EXCEPT !.state = "connecting", !.retryAt = -1, !.sockets = @ + 1]
    /\ UNCHANGED <<now, activePositions, nextId, serviceMinusWs>>

\* time passes for the connection; a due reconnect timeout runs before the
\* clock moves on
SocketTick == ~(ws.retryAt # -1 /\ now >= ws.retryAt) /\ Tick

NextSocket == SocketOpen \/ SocketClose \/ Reconnect \/ SocketTick

\* The streaming connection: it opens, is closed and is made again.
SocketSpec == Init /\ [][NextSocket]_vars

\* ------------------------------------------------------------------ claims
TimerKey(t) == <<t.sym, t.side>>

\* the callback c is the one of timer t
CallOf(c, t) ==
    c.sym = t.sym /\ c.side = t.side /\ c.baseline = t.baseline /\ c.deadline = t.deadline

\* C3: an observation below 1000 USD is ignored. In every reachable state,
\* running handleLiquidation on such an observation leaves the cache, the
\* handles, the live timers and the cleaning timeouts as they are and
\* suspends nowhere, and a batch with such an observation in it is handled
\* as the batch without it.
C3_BelowThresholdIgnored ==
    \A d \in Observations :
        d.p * d.v < MIN_POSITION =>
            /\ RunLoop(DetectorState, <<d>>, now) = [D |-> DetectorState, susp |-> << >>]
            /\ \A e \in Observations :
                 /\ RunLoop(DetectorState, <<d, e>>, now) = RunLoop(DetectorState, <<e>>, now)
                 /\ RunLoop(DetectorState, <<e, d>>, now).D = RunLoop(DetectorState, <<e>>, now).D

\* a message of small observations has been handled while a timer of their
\* key was live, and the timer is still live
C3_Witness == ignored /\ pool # {}

C5_OneLiveTimerPerKey ==
    /\ \A t \in pool : TimerKey(t) \in DOMAIN timers /\ timers[TimerKey(t)] = t
    /\ \A k \in Keys : Cardinality({t \in pool : TimerKey(t) = k}) <= 1

\* two qualifying observations arrived on one key, no timer has fired, no
\* handler is suspended: the first timer was cleared, the second is live
C5_Witness ==
    \E k \in Keys :
        /\ BagCardinality(evictions) = 2 /\ bursts[k] >= 1
        /\ \A k2 \in Keys \ {k} : bursts[k2] = 0
        /\ calls = {} /\ handlers = EmptyBag
        /\ Cardinality({t \in pool : TimerKey(t) = k}) = 1

\* C1: for every key, a burst of qualifying observations (each less than
\* 10 s after the one before) gets at most one order request, and a request
\* is issued only when 10 s or more have passed since the last qualifying
\* observation on the key. The first half is the state predicate below.
C1_AtMostOncePerBurst ==
    \A k \in Keys : burstReq[k] <= 1

\* the second half of C1 alone: an order request on a key is issued only
\* when 10 s or more have passed since its last qualifying observation
OnlyAfterQuiescence ==
    [][\A k \in Keys :
          burstReq'[k] > burstReq[k] => now >= lastQual[k] + QUIET_MS]_vars

\* the side of a symbol has seen no qualifying observation for 30 s
Inactive(sym, side) ==
    lastQual[<<sym, side>>] = -1 \/ now - lastQual[<<sym, side>>] >= CACHE_TTL

\* a cleaning timeout of the symbol is due and has not run yet
CleanupDue(sym) ==
    \E e \in BagToSet(evictions) : e.sym = sym /\ e.at + CACHE_TTL <= now

\* C6: the cache entry of a symbol is gone once both sides have been
\* inactive for 30 s (at the latest when the timeouts due by then have
\* run), and it is there as long as one side has been active within 30 s.
C6_EvictedAfterInactivity ==
    \A sym \in Symbols :
        /\ (Inactive(sym, "Buy") /\ Inactive(sym, "Sell") /\ ~CleanupDue(sym))
              => sym \notin DOMAIN liquidationCache
        /\ (~Inactive(sym, "Buy") \/ ~Inactive(sym, "Sell"))
              => sym \in DOMAIN liquidationCache

\* the callbacks c and c2 are the same callback, at two moments
SameCall(c, c2) ==
    c.sym = c2.sym /\ c.side = c2.side /\ c.baseline = c2.baseline /\ c.deadline = c2.deadline

\* the callback c has ended in the step
Ended(c) == c \in calls /\ \A c2 \in calls' : ~SameCall(c, c2)

\* the exchange has told the call c of an open position on the side of its order
ReportsConflict(c) ==
    /\ c.posReply.kind = "ok" /\ c.posReply.retCode = 0
    /\ Len(c.posReply.list) > 0
    /\ c.posReply.list[1].side = c.tradeSide
    /\ c.posReply.list[1].size > 0

BracketOrdered(side, entryPrice, takeProfit, stopLoss) ==
    IF side = "Buy"
    THEN takeProfit > entryPrice /\ entryPrice > stopLoss
    ELSE takeProfit < entryPrice /\ entryPrice < stopLoss

\* C8: every order placeOrder sends has a bracket in the order of its side:
\* the take-profit and the stop-loss it sends, adjusted to the tick and
\* written with two decimals, lie on their sides of the entry price.
C8_NoInvertedBracket ==
    \A c \in calls :
        c.submits > 0 =>
            BracketOrdered(c.tradeSide, c.currentPrice,
                           ToFixed2(c.takeProfit), ToFixed2(c.stopLoss))

\* C9: when submitOrder returns a code other than 0, the call goes on to
\* report the failure.
C9_RejectionReported ==
    [][\A c \in calls :
          (c.pc = "submit" /\ c \notin calls'
             /\ lastReply'.kind = "ok" /\ lastReply'.retCode # 0) =>
              \E c2 \in calls' : SameCall(c, c2) /\ c2.pc = "errorMsg"]_vars

\* C10: a callback that requested an order ends with exactly one message
\* sent about how the request ended.
C10_OneNotification ==
    [][\A c \in calls : (c.tradeSide # "None" /\ Ended(c)) => c.notes = 1]_vars

\* nothing is pending: no suspended handler, no live timer, no callback
Quiet == handlers = EmptyBag /\ pool = {} /\ calls = {}

\* C2: when every call succeeds, one burst of sell-side observations on a
\* symbol, once all of it has been dealt with, has led to exactly one order:
\* a Buy on the symbol, of 1000 USD at the quoted price, requested 10 s or
\* more after the last observation of the burst.
C2_OneBuyOrderPerSellBurst ==
    \A sym \in Symbols :
        (bursts[<<sym, "Sell">>] = 1 /\ bursts[<<sym, "Buy">>] = 0 /\ Quiet) =>
            /\ Len(activePositions) = 1
            /\ activePositions[1].symbol = sym
            /\ activePositions[1].side = "Buy"
            /\ activePositions[1].size * activePositions[1].entryPrice
                  = USD_AMOUNT * 1000 * 1000
            /\ activePositions[1].openedAt >= lastQual[<<sym, "Sell">>] + QUIET_MS

\* C11: a call of placeOrder sends at most one order: none before the
\* ticker has answered and none on the skip path, one once submitOrder has
\* been called, and after submitOrder has answered or thrown the call only
\* goes on to its messages and never back to a step that sends an order.
C11_AtMostOneSubmit ==
    /\ [](\A c \in calls :
            /\ c.submits <= 1
            /\ c.pc \in {"announce", "instruments", "position", "skipMsg", "ticker"}
                  => c.submits = 0
            /\ c.pc \in {"submit", "okMsg"} => c.submits = 1)
    /\ [][\A c \in calls, c2 \in calls' :
            (SameCall(c, c2) /\ c2 # c /\ c.submits = 1) =>
                /\ c2.submits = 1
                /\ c2.pc \in {"okMsg", "errorMsg", "failMsg"}]_vars

\* an order was sent and failed, and the call is reporting the failure
C11_Witness ==
    \E c \in calls : c.pc = "failMsg" /\ c.submits = 1 /\ lastReply.kind = "throw"

\* submitOrder has answered the call c with retCode 0
Accepted(c) == c \in calls /\ c.pc = "okMsg"

\* C12: a TrackedPosition is registered exactly for the orders submitOrder
\* accepted. A call whose order was accepted goes on by registering one
\* position with the order's symbol and side, the quote as entry price and
\* the computed size, take-profit and stop-loss; no other step of a call
\* changes the tracked positions.
C12_TrackedIffAccepted ==
    [][/\ \A c \in calls :
            (Accepted(c) /\ c \notin calls') =>
                /\ Len(activePositions') = Len(activePositions) + 1
                /\ SubSeq(activePositions', 1, Len(activePositions)) = activePositions
                /\ LET p == activePositions'[Len(activePositions')]
                   IN  /\ p.symbol = c.sym /\ p.side = c.tradeSide
                       /\ p.entryPrice = c.currentPrice /\ p.size = c.qty
                       /\ p.takeProfit = c.takeProfit /\ p.stopLoss = c.stopLoss
       /\ activePositions' # activePositions =>
            \E c \in calls : Accepted(c) /\ c \notin calls']_vars

\* the identities of the positions in a sequence of tracked positions
Oids(positions) == {positions[k].oid : k \in 1..Len(positions)}

\* the identities of the positions whose trade the analytics have counted
Recorded(ids) == {ids[k] : k \in 1..Len(ids)}

\* C13: a position is never removed from the tracked set without its
\* ClosedTrade having been recorded by the analytics: whenever a step takes
\* a position out of activePositions, a trade of that position has been
\* counted by then.
C13_NeverRemovedUnrecorded ==
    [][\A id \in Oids(activePositions) \ Oids(activePositions') :
            id \in Recorded(closedIds')]_vars

\* C14: each TrackedPosition gives rise to at most one ClosedTrade counted
\* by the analytics, also when polling ticks overlap.
C14_RecordedAtMostOnce ==
    \A a, b \in 1..Len(closedIds) : closedIds[a] = closedIds[b] => a = b

\* the run is the one that takes the step
Acting(run) == CopiesIn(run, polls') < CopiesIn(run, polls)

\* C15: within one polling tick a failing position query does not prevent
\* the check of the other positions: a run leaves a position only for the
\* next one of its snapshot, up to the last; and a position whose query
\* failed stays in the tracked set and is not recorded.
C15_FailedQueryIsSkipped ==
    [][\A run \in BagToSet(polls) :
            Acting(run) =>
                /\ run.i < Len(run.snapshot) =>
                      \E next \in BagToSet(polls') :
                          /\ next.snapshot = run.snapshot
                          /\ next.i \in {run.i, run.i + 1}
                /\ run.retCode # 0 =>
                      /\ closedIds' = closedIds
                      /\ dailyStats' = dailyStats
                      /\ activePositions' = activePositions]_vars

\* C18: each call of the analytics' processClosedPosition increments
\* totalOrders by one, increments profitable by one if pnl >= 0 and loss by
\* one otherwise, adds pnl to totalProfit and appends the trade to
\* positions, whether or not the trade has been recorded before.
C18_RecordCounts ==
    [][dailyStats' # dailyStats =>
          /\ Len(dailyStats'.positions) = Len(dailyStats.positions) + 1
          /\ LET trade == dailyStats'.positions[Len(dailyStats'.positions)]
             IN  /\ dailyStats'.positions = Append(dailyStats.positions, trade)
                 /\ dailyStats'.totalOrders = dailyStats.totalOrders + 1
                 /\ dailyStats'.totalProfit = dailyStats.totalProfit + trade.pnl
                 /\ trade.pnl >= 0 =>
                       /\ dailyStats'.profitable = dailyStats.profitable + 1
                       /\ dailyStats'.loss = dailyStats.loss
                 /\ trade.pnl < 0 =>
                       /\ dailyStats'.profitable = dailyStats.profitable
                       /\ dailyStats'.loss = dailyStats.loss + 1]_vars

\* the same trade, of pnl 0, has been recorded twice and counted twice
C18_Witness ==
    /\ Len(dailyStats.positions) = 2
    /\ dailyStats.positions[1] = dailyStats.positions[2]
    /\ dailyStats.positions[1].pnl = 0
    /\ closedIds[1] = closedIds[2]
    /\ dailyStats.totalOrders = 2 /\ dailyStats.profitable = 2 /\ dailyStats.loss = 0

\* C16: determineClosedType is the reference classification: for a Buy an
\* exit price at or above the take-profit is a TP, otherwise one at or below
\* the stop-loss is an SL, otherwise the closure is Manual; for a Sell the
\* comparisons are mirrored.
C16_ClosedTypeIsReference ==
    quote.pc = "closed" =>
        LET p == quote.position
            x == quote.trade.exitPrice
            t == quote.trade.closedType
            tp == IF p.side = "Buy" THEN x >= p.takeProfit ELSE x <= p.takeProfit
            sl == IF p.side = "Buy" THEN x <= p.stopLoss ELSE x >= p.stopLoss
        IN  /\ x = quote.markPrice
            /\ t \in {"TP", "SL", "Manual"}
            /\ t = "TP" <=> tp
            /\ t = "SL" <=> (~tp /\ sl)
            /\ t = "Manual" <=> (~tp /\ ~sl)

\* a Buy of take-profit 101 and stop-loss 99.65 found closed at 101 is a TP
C16_Witness ==
    /\ quote.pc = "closed"
    /\ quote.position.side = "Buy"
    /\ quote.position.takeProfit = 101000 /\ quote.position.stopLoss = 99650
    /\ quote.trade.exitPrice = 101000
    /\ quote.trade.closedType = "TP"

\* C17: the pnl of a ClosedTrade is (exitPrice - entryPrice) x size for a
\* Buy and (entryPrice - exitPrice) x size for a Sell, with entry price and
\* size those of the position and the exit price the mark price fetched.
C17_PnlFormula ==
    quote.pc = "closed" =>
        LET p == quote.position
            trade == quote.trade
        IN  /\ trade.entryPrice = p.entryPrice
            /\ trade.exitPrice = quote.markPrice
            /\ trade.side = p.side
            /\ p.side = "Buy" => trade.pnl = (quote.markPrice - p.entryPrice) * p.size
            /\ p.side = "Sell" => trade.pnl = (p.entryPrice - quote.markPrice) * p.size

\* a Sell closed above its entry price, at a loss
C17_Witness ==
    /\ quote.pc = "closed"
    /\ quote.position.side = "Sell"
    /\ quote.markPrice > quote.position.entryPrice
    /\ quote.trade.pnl < 0

\* C19: a failure while one observation is handled does not stop the
\* detector: when a suspended handleLiquidation goes on or fails, the
\* process stays up for the later feed events, the observation it was
\* suspended at gets its timer, and the qualifying observations still to
\* come in its batch are entered in the cache.
C19_FeedFailureIsLocal ==
    [][\A h \in BagToSet(handlers) :
            CopiesIn(h, handlers') < CopiesIn(h, handlers) =>
                /\ alive'
                /\ \E t \in pool' :
                      t.sym = h.cur.s /\ t.side = h.cur.S /\ t.deadline = now + QUIET_MS
                /\ \A i \in DOMAIN h.rest :
                      Qualifies(h.rest[i]) =>
                          lastQual'[<<h.rest[i].s, h.rest[i].S>>] = now]_vars

\* C20: the levels placeOrder computes, each rounded to the tick, are in
\* the order of the side, TP > entry > SL for a Buy and TP < entry < SL for
\* a Sell, for any entry price and any tick size.
C20_LevelsOrdered ==
    quote.pc = "levels" =>
        BracketOrdered(quote.position.side, quote.position.entryPrice,
                       quote.position.takeProfit, quote.position.stopLoss)

\* C21: the quantity of an order is a multiple of the quantity step of its
\* symbol and at least the minimum quantity of its symbol, for every symbol
\* and every price.
C21_QtyOnStepAboveMin ==
    quote.pc = "sized" =>
        /\ quote.qty % GetMinStep(quote.symbol) = 0
        /\ quote.qty >= GetMinQty(quote.symbol)

\* SOLUSDT at 3000: 0.333 is written 0.33 and rounded to the step, 0.3
C21_Witness ==
    /\ quote.pc = "sized"
    /\ quote.symbol = "SOLUSDT" /\ quote.currentPrice = 3000000
    /\ quote.qty = 300

\* C22: the timestamp the liquidation cache holds for a symbol and a side
\* never goes down, whatever observations arrive and whatever cleaning
\* timeouts run.
C22_TimestampsNeverDecrease ==
    [][\A k \in Keys :
          CacheRead(liquidationCache', k[1], k[2])
              >= CacheRead(liquidationCache, k[1], k[2])]_vars

\* a key has had two bursts, its timestamp is that of the second, and the
\* cleaning timeout of the first has run
C22_Witness ==
    \E k \in Keys :
        /\ bursts[k] = 2
        /\ CacheRead(liquidationCache, k[1], k[2]) = lastQual[k]
        /\ BagCardinality(evictions) = 1

\* the key of an observation: `${symbolPair}_${side}` (line 262)
KeyOf(d) == <<d.s, d.S>>

\* the keys a suspended handleLiquidation still has to deal with: the one
\* of the observation it is suspended at and those of the qualifying
\* observations after it
KeysOf(h) ==
    {KeyOf(h.cur)} \cup {KeyOf(h.rest[i]) : i \in {j \in DOMAIN h.rest : Qualifies(h.rest[j])}}

\* what the detector holds for the key k: the timestamp of the cache, the
\* handle in this.timers, the live timers and what each would decide
SlotOf(cache, T, P, k) ==
    [seenAt |-> CacheRead(cache, k[1], k[2]),
     handle |-> IF k \in DOMAIN T THEN <<T[k]>> ELSE << >>,
     live |-> {t \in P : t.sym = k[1] /\ t.side = k[2]},
     orders |-> {t \in P : /\ t.sym = k[1] /\ t.side = k[2]
                           /\ Exhausted(CacheRead(cache, k[1], k[2]), t.baseline)}]

\* C23: the two sides of a symbol are independent. A step that handles
\* observations leaves alone every key none of its qualifying observations
\* is on: the timestamp of the cache, the timer and its baseline, and
\* whether the timer requests an order when it elapses. This holds for the
\* arrival of a message and for a handler going on after its message about
\* a large liquidation.
C23_SidesIndependent ==
    [][\A k \in Keys :
          LET same == SlotOf(liquidationCache', timers', pool', k)
                         = SlotOf(liquidationCache, timers, pool, k)
          IN  /\ (nObs' > nObs /\ lastQual'[k] # now) => same
              /\ \A h \in BagToSet(handlers) :
                    (CopiesIn(h, handlers') < CopiesIn(h, handlers) /\ k \notin KeysOf(h))
                        => same]_vars

\* a timer of the sell side is live, set at the last sell-side observation,
\* and an observation of the buy side of the symbol has been handled since
C23_Witness ==
    \E t \in pool :
        /\ t.side = "Sell"
        /\ t.deadline = lastQual[<<t.sym, "Sell">>] + QUIET_MS
        /\ lastQual[<<t.sym, "Buy">>] > lastQual[<<t.sym, "Sell">>]

\* C24: after every disconnect a new connection attempt is made after the
\* fixed delay of 5 s, any number of times, and every connection that
\* opens sends the subscription again. While the socket is closed its
\* reconnect timeout is pending and due within 5 s; a new socket is made
\* exactly when that timeout runs, 5 s after the disconnect; there is one
\* socket more than there were disconnects; and every socket that opens
\* sends one subscription.
C24_ReconnectsAndResubscribes ==
    /\ [](/\ ws.state = "closed" =>
                /\ ws.retryAt # -1 /\ ws.retryAt <= now + RECONNECT_MS
                /\ ws.sockets = ws.closes
          /\ ws.state # "closed" => ws.retryAt = -1 /\ ws.sockets = ws.closes + 1)
    /\ [][/\ ws.state = "closed" /\ ws'.state # "closed" =>
                /\ ws'.state = "connecting"
                /\ ws'.sockets = ws.sockets + 1
                /\ now >= ws.retryAt /\ now < ws.retryAt + TimeStep
          /\ ws'.state = "closed" /\ ws.state # "closed" =>
                ws'.retryAt = now + RECONNECT_MS
          /\ ws'.state = "open" /\ ws.state # "open" =>
                ws'.subscribed = ws.subscribed + 1
          /\ ws'.subscribed # ws.subscribed => ws'.state = "open" /\ ws.state # "open"]_vars

\* the connection was lost three times, one attempt failing before it
\* opened, and the socket that opened for the second time has subscribed
C24_Witness ==
    ws.state = "open" /\ ws.closes = 3 /\ ws.sockets = 4 /\ ws.subscribed = 2

\* C25: a quiescence timer that elapses as a no-op, the cache holding a
\* newer timestamp than its baseline, is followed by a timer of its key:
\* until an order has been requested for the burst, a timer of the key is
\* live or a handler is about to arm one, so that the cascade does not end
\* without a decision.
C25_NoOpIsFollowedByTimer ==
    \A c \in calls :
        (c.pc = "cascadeMsg" /\ burstReq[<<c.sym, c.side>>] = 0) =>
            \/ \E t \in pool : t.sym = c.sym /\ t.side = c.side
            \/ \E h \in BagToSet(handlers) : <<c.sym, c.side>> \in KeysOf(h)

\* C26: a large liquidation is handled as any qualifying observation, its
\* message aside. As after an observation below the higher threshold, the
\* live timers of a key are set at the last qualifying observation of the
\* key, with its timestamp as baseline and due 10 s after it, and such a
\* timer is live until those 10 s have passed.
C26_LargeHandledAsSmall ==
    \A k \in Keys :
        /\ \A t \in pool :
              (t.sym = k[1] /\ t.side = k[2]) =>
                  t.baseline = lastQual[k] /\ t.deadline = lastQual[k] + QUIET_MS
        /\ (alive /\ lastQual[k] # -1 /\ now < lastQual[k] + QUIET_MS) =>
              \E t \in pool : t.sym = k[1] /\ t.side = k[2]

\* C27: the tracked positions hold at most one TrackedPosition for a symbol
\* and a side.
C27_OnePositionPerSymbolSide ==
    \A i, j \in 1..Len(activePositions) :
        (/\ activePositions[i].symbol = activePositions[j].symbol
         /\ activePositions[i].side = activePositions[j].side) => i = j

\* C28: when the instrument lookup returns no instrument or the ticker
\* returns no quote, placeOrder ends failed before submission. A call gets
\* past the lookup only with the tick size of an instrument and sends an
\* order only with a quote; otherwise it goes on to report the failure,
\* and from there to its end it sends no order and leaves the tracked
\* positions as they are.
C28_FailsBeforeSubmission ==
    /\ [](\A c \in calls :
            /\ c.pc \in {"position", "skipMsg", "ticker", "submit", "okMsg"}
                  => c.tickSize \in Ticks
            /\ c.submits > 0 => (c.tickSize \in Ticks /\ c.currentPrice \in Prices))
    /\ [][\A c \in calls :
            /\ (c.pc \in {"instruments", "ticker"} /\ c \notin calls') =>
                  /\ activePositions' = activePositions
                  /\ \E c2 \in calls' :
                        /\ SameCall(c, c2)
                        /\ \/ c.pc = "instruments" /\ c2.pc = "position" /\ c2.submits = 0
                           \/ c.pc = "ticker" /\ c2.pc = "submit"
                           \/ c2.pc = "errorMsg" /\ c2.submits = 0 /\ c2.notes = c.notes + 1
            /\ (c.pc \in {"errorMsg", "failMsg"} /\ c.submits = 0 /\ c \notin calls') =>
                  /\ activePositions' = activePositions
                  /\ lastReply' = lastReply
                  /\ \A c2 \in calls' : SameCall(c, c2) => c2.submits = 0]_vars

\* a call whose instrument lookup gave no instrument is reporting the
\* failure, with no order sent
C28_Witness ==
    \E c \in calls :
        c.pc = "errorMsg" /\ c.tickSize = 0 /\ c.submits = 0 /\ activePositions = << >>

\* C29: a position registered while a polling tick is in progress is never
\* lost. A step takes out of the tracked positions at most the position a
\* run of checkPositions is dealing with; every other position, those
\* registered after the snapshot of the run included, stays as it is and
\* in its place.
C29_RemovalKeepsTheOthers ==
    [][/\ \A id \in Oids(activePositions) \ Oids(activePositions') :
            \E run \in BagToSet(polls) :
                Acting(run) /\ run.snapshot[run.i].oid = id
       /\ \A run \in BagToSet(polls) :
            (Acting(run) /\ activePositions' # activePositions) =>
                /\ Oids(activePositions')
                      = Oids(activePositions) \ {run.snapshot[run.i].oid}
                /\ \A a, b \in 1..Len(activePositions') :
                      \E x, y \in 1..Len(activePositions) :
                          /\ activePositions[x] = activePositions'[a]
                          /\ activePositions[y] = activePositions'[b]
                          /\ (a < b) = (x < y)]_vars

\* before the second polling tick: the first position has been recorded
\* and removed by the run of the first tick, and the position registered
\* after that tick began and before the trade was built is still tracked
C29_Witness ==
    /\ nextPoll = StartTime + 2 * CHECK_INTERVAL
    /\ closedIds = <<1>>
    /\ Len(activePositions) = 1
    /\ activePositions[1].oid = 2
    /\ activePositions[1].openedAt > StartTime + CHECK_INTERVAL
    /\ dailyStats.positions[1].timestamp > activePositions[1].openedAt

RECURSIVE SumPnl(_)
\* the sum of the pnl of the trades
SumPnl(trades) ==
    IF trades = << >> THEN 0 ELSE Head(trades).pnl + SumPnl(Tail(trades))

\* C30: after any sequence of recorded trades, whether or not their
\* messages were sent, totalOrders = profitable + loss = the number of
\* trades in positions, and totalProfit is the sum of their pnl.
C30_SummaryConsistent ==
    /\ dailyStats.totalOrders = dailyStats.profitable + dailyStats.loss
    /\ dailyStats.totalOrders = Len(dailyStats.positions)
    /\ dailyStats.totalProfit = SumPnl(dailyStats.positions)

\* three trades have been recorded, one at a loss; the position of the
\* first has been removed after its message
C30_Witness ==
    /\ dailyStats.totalOrders = 3
    /\ dailyStats.loss = 1
    /\ dailyStats.totalProfit # 0
    /\ closedIds[1] \notin Oids(activePositions)

\* getPositionInfo threw or returned a code other than 0
QueryFailed(r) == r.kind = "throw" \/ (r.kind = "ok" /\ r.retCode # 0)

\* C31: when the position query of the conflict check fails or returns a
\* code other than 0, getCurrentPositions reports no position and
\* placeOrder goes on to the price lookup as if no position were open: the
\* call is not skipped, and from the ticker on it goes the way of every
\* other call, to the order or to a failure of a later step.
C31_FailedQueryProceeds ==
    /\ [](/\ \A r \in PositionReplies :
                QueryFailed(r) => GetCurrentPositions(r) = [side |-> "None", size |-> 0]
          /\ \A c \in calls :
                QueryFailed(c.posReply) =>
                    c.pc \in {"ticker", "submit", "okMsg", "errorMsg", "failMsg"})
    /\ [][\A c \in calls, c2 \in calls' :
            (c.pc = "position" /\ SameCall(c, c2) /\ c2 # c /\ QueryFailed(c2.posReply)) =>
                /\ c2.pc = "ticker"
                /\ c2.notes = c.notes /\ c2.submits = 0]_vars

\* the position query of a call threw and the call has sent its order
C31_Witness ==
    \E c \in calls :
        c.posReply.kind = "throw" /\ c.pc = "submit" /\ c.submits = 1

\* placeOrder registers the position: its take-profit has passed the
\* checks of lines 112-121
Registered(position) ==
    TpValid(position.side, position.takeProfit, position.entryPrice)

\* C32: for every position placeOrder registers and every exit price the
\* classification of the closure agrees with the sign of the profit: a TP
\* has pnl > 0 and an SL has pnl < 0, so that the analytics count no SL as
\* profitable and no TP as a loss.
C32_ClosedTypeAgreesWithPnl ==
    (quote.pc = "closed" /\ Registered(quote.position)) =>
        LET counted == Record(InitDailyStats, quote.trade)
        IN  /\ quote.trade.closedType = "TP" =>
                  quote.trade.pnl > 0 /\ counted.profitable = 1 /\ counted.loss = 0
            /\ quote.trade.closedType = "SL" =>
                  quote.trade.pnl < 0 /\ counted.profitable = 0 /\ counted.loss = 1

====
